---- MODULE Spec2Model ----
(***************************************************************************)
(* Model of the Algolia index size monitor (src/src/main.rs).              *)
(*                                                                         *)
(* The process reads its arguments, fixes the expected record count, and   *)
(* then loops forever: in change-triggered mode it queries the record      *)
(* count, evaluates the delta against the threshold and, when it triggers, *)
(* fetches and prints the build logs newer than last_log_timestamp; in     *)
(* all-logs mode it fetches and prints the logs in every cycle.            *)
(*                                                                         *)
(* Strings that the program compares (timestamps) are sequences of         *)
(* character codes ordered as Rust orders String: lexicographically by     *)
(* byte.  u64/i64 values are modelled with IntWidth bits instead of 64.    *)
(***************************************************************************)
EXTENDS Integers, Sequences, FiniteSets, TLC

(***************************************************************************)
(* Bounds of the model.                                                    *)
(***************************************************************************)
\* number of bits of the model's u64 / i64
IntWidth == 8
\* largest number of entries in the "logs" array of one response
MaxBatch == 2

(***************************************************************************)
(* Integer types.                                                          *)
(***************************************************************************)
Modulus == 2 ^ IntWidth
SignBit == 2 ^ (IntWidth - 1)
I64 == (0 - SignBit) .. (SignBit - 1)

\* `x as i64` for a u64 x: reinterpretation of the bits (two's complement)
AsI64(x) == IF x >= SignBit THEN x - Modulus ELSE x

\* the i64 that a wrapping operation leaves for the mathematical result x
WrapI64(x) == ((x + SignBit) % Modulus) - SignBit

(***************************************************************************)
(* Strings.                                                                *)
(***************************************************************************)
RECURSIVE StrLt(_, _)
\* a < b for Rust strings: lexicographic comparison of the bytes
StrLt(a, b) ==
    IF b = <<>> THEN FALSE
    ELSE IF a = <<>> THEN TRUE
    ELSE IF Head(a) < Head(b) THEN TRUE
    ELSE IF Head(a) > Head(b) THEN FALSE
    ELSE StrLt(Tail(a), Tail(b))

StrGt(a, b) == StrLt(b, a)

StrGe(a, b) == ~ StrLt(a, b)

\* "0000-00-00T00:00:00.000Z"
Sentinel ==
    << 48, 48, 48, 48, 45, 48, 48, 45, 48, 48, 84, 48,
       48, 58, 48, 48, 58, 48, 48, 46, 48, 48, 48, 90 >>

(***************************************************************************)
(* Inputs: what the command line and the service can hand to the program.  *)
(***************************************************************************)
\* timestamps of log entries: "0", "1", "10", "9"
\* ("0" sorts before the sentinel; "10" sorts before "9")
Timestamps == { <<48>>, <<49>>, <<49, 48>>, <<57>> }

\* what distinguishes two entries that carry the same timestamp
Bodies == { "a", "b" }

\* the "timestamp" field of a log entry: a string, or missing
TimestampFields ==
    [kind : {"str"}, val : Timestamps] \cup [kind : {"absent"}, val : {<<>>}]

\* one element of the "logs" array
Jsons == [timestamp : TimestampFields, body : Bodies]

\* the "logs" arrays
Batches == UNION { [1 .. n -> Jsons] : n \in 0 .. MaxBatch }

\* responses to the logs request: a transport (or body decoding) error, or a
\* JSON value whose "logs" is an array, is missing, or is something else
LogResponses ==
    [status : {"err"}, kind : {"none"}, val : {<<>>}]
    \cup [status : {"ok"}, kind : {"array"}, val : Batches]
    \cup [status : {"ok"}, kind : {"absent", "other"}, val : {<<>>}]

\* record counts the service reports
Counts == { 0, 50, 90, 105, 110, 111, SignBit, Modulus - 1 }

\* responses to the count query: an error, or a JSON value whose "nbHits" is
\* an unsigned integer, is missing, or is something else
CountResponses ==
    [status : {"err"}, kind : {"none"}, val : {0}]
    \cup [status : {"ok"}, kind : {"u64"}, val : Counts]
    \cup [status : {"ok"}, kind : {"absent", "other"}, val : {0}]

\* the command line
ArgsSet ==
    [all_logs : BOOLEAN, expected_records : {0, 100}, delta : {-10, 0, 10}]

(***************************************************************************)
(* State.                                                                  *)
(***************************************************************************)
VARIABLES
    args,                \* the parsed command line
    pc,                  \* position of main
    expected_records,    \* main's expected_records
    last_log_timestamp,  \* main's last_log_timestamp
    total,               \* total_records of print_logs_when_records_change
    changed_records,     \* changed_records of print_logs_when_records_change
    triggered,           \* value of the condition of the if statement
    logs,                \* logs of print_algolia_logs
    printed,             \* lines written to stdout by the current run
    count_kind,          \* shape of the count response of the current cycle
    logs_kind,           \* shape of the logs response of the current cycle
    batch,               \* the "logs" array of the response of the cycle
    wm_start,            \* last_log_timestamp when the latest run began
    emitted,             \* timestamps of the lines written by earlier runs
    fetched,             \* the logs were requested in the current cycle
    failure,             \* a request has returned an error
    startup_queries,     \* results of the count queries made before the loop
    stderr,              \* messages written to stderr in the current cycle
    cycle_wm,            \* last_log_timestamp when the current cycle began
    tracked,             \* the entry that is followed through the batches
    rerun,               \* print_algolia_logs run twice on one response
    classify             \* one run of the pipeline that tracks the method

vars ==
    << args, pc, expected_records, last_log_timestamp, total,
       changed_records, triggered, logs, printed, count_kind, logs_kind,
       batch, wm_start, emitted, fetched, failure, startup_queries, stderr,
       cycle_wm, tracked, rerun, classify >>

\* the variables of the poll loop
loop_vars ==
    << args, pc, expected_records, last_log_timestamp, total,
       changed_records, triggered, logs, printed, count_kind, logs_kind,
       batch, wm_start, emitted, fetched, failure, startup_queries, stderr,
       cycle_wm, tracked >>

(***************************************************************************)
(* AlgoliaLog and AlgoliaClient.                                           *)
(***************************************************************************)
\* json["timestamp"].as_str() is Some
HasTimestamp(json) == json.timestamp.kind = "str"

\* AlgoliaLog::from_json, for a json that has a timestamp; message is the
\* serialization of the whole entry
from_json(json) == [timestamp |-> json.timestamp.val, message |-> json]

\* is_newer with >= in place of >
is_newer_or_equal(log, timestamp) == StrGe(log.timestamp, timestamp)

\* AlgoliaLog::is_newer
is_newer(log, timestamp) == StrGt(log.timestamp, timestamp)

\* AlgoliaClient::total_records: the Result for a response
total_records(response) ==
    IF response.status = "err"
    THEN [tag |-> "err", val |-> 0]
    ELSE [tag |-> "ok",
          val |-> IF response.kind = "u64" THEN response.val ELSE 0]

\* AlgoliaClient::get_logs: the Result for a response, or the panic of the
\* unwrap in from_json
get_logs(response) ==
    IF response.status = "err"
    THEN [tag |-> "err", val |-> <<>>]
    ELSE IF response.kind # "array"
    THEN [tag |-> "ok", val |-> <<>>]
    ELSE IF \E i \in DOMAIN response.val : ~ HasTimestamp(response.val[i])
    THEN [tag |-> "panic", val |-> <<>>]
    ELSE [tag |-> "ok",
          val |-> [i \in DOMAIN response.val |-> from_json(response.val[i])]]

(***************************************************************************)
(* The delta evaluation of print_logs_when_records_change.                 *)
(***************************************************************************)
\* total_records as i64 - expected_records as i64: the outcomes of the
\* subtraction.  When the difference does not fit an i64 the build decides:
\* with overflow checks the subtraction panics, without them it wraps.
Subtract(total_records_, expected_records_) ==
    LET d == AsI64(total_records_) - AsI64(expected_records_)
    IN  IF d \in I64
        THEN { [tag |-> "ok", val |-> d] }
        ELSE { [tag |-> "panic", val |-> 0],
               [tag |-> "ok", val |-> WrapI64(d)] }

\* the condition of the if statement
Triggers(delta, changed) ==
    (delta < 0 /\ changed < delta) \/ (delta > 0 /\ changed > delta)

\* print_algolia_logs called whatever the condition
AfterEvaluateUngated(trig) == "fetch"

\* a cycle that does not trigger goes on without the sleep
AfterEvaluateNoSleep(trig) == IF trig THEN "fetch" ELSE "loop"

\* where print_logs_when_records_change goes after the condition
AfterEvaluate(trig) == IF trig THEN "fetch" ELSE "sleep"

(***************************************************************************)
(* The two loops of print_algolia_logs.                                    *)
(***************************************************************************)
RECURSIVE RetainedRunning(_, _)
\* a first loop that moves the timestamp while it filters
RetainedRunning(logs_, timestamp) ==
    IF logs_ = <<>>
    THEN <<>>
    ELSE IF is_newer(Head(logs_), timestamp)
    THEN <<Head(logs_)>> \o RetainedRunning(Tail(logs_), Head(logs_).timestamp)
    ELSE RetainedRunning(Tail(logs_), timestamp)

RECURSIVE ByTimestamp(_)
\* logs_ sorted by timestamp, oldest first (insertion sort)
ByTimestamp(logs_) ==
    IF logs_ = <<>>
    THEN <<>>
    ELSE LET rest == ByTimestamp(Tail(logs_))
             before == SelectSeq(rest, LAMBDA log :
                           ~ StrGt(log.timestamp, Head(logs_).timestamp))
             after == SelectSeq(rest, LAMBDA log :
                           StrGt(log.timestamp, Head(logs_).timestamp))
         IN  before \o <<Head(logs_)>> \o after

\* a first loop that prints the newer logs in the order of their timestamps
RetainedSorted(logs_, timestamp) ==
    ByTimestamp(SelectSeq(logs_, LAMBDA log : is_newer(log, timestamp)))

\* a first loop that tests against the timestamp the program starts with
RetainedFromSentinel(logs_, timestamp) ==
    SelectSeq(logs_, LAMBDA log : is_newer(log, Sentinel))

\* first loop: the logs that are printed, in the order of the batch
Retained(logs_, timestamp) ==
    SelectSeq(logs_, LAMBDA log : is_newer(log, timestamp))

RECURSIVE AdvanceUnchecked(_, _)
\* a second loop without the is_newer test
AdvanceUnchecked(logs_, timestamp) ==
    IF logs_ = <<>>
    THEN timestamp
    ELSE AdvanceUnchecked(Tail(logs_), Head(logs_).timestamp)

\* a second loop that tests against the timestamp it started with
AdvanceLastSeen(logs_, timestamp) ==
    LET kept == Retained(logs_, timestamp)
    IN  IF kept = <<>> THEN timestamp ELSE kept[Len(kept)].timestamp

\* a second loop whose replacement is lost
AdvanceKeep(logs_, timestamp) == timestamp

RECURSIVE Advance(_, _)
\* second loop: last_log_timestamp after the loop has run over logs_
Advance(logs_, timestamp) ==
    IF logs_ = <<>>
    THEN timestamp
    ELSE Advance(Tail(logs_),
                 IF is_newer(Head(logs_), timestamp)
                 THEN Head(logs_).timestamp
                 ELSE timestamp)

\* the lines that the first loop prints
MessagesOf(logs_) == [i \in DOMAIN logs_ |-> logs_[i].message]

\* print_algolia_logs as a function of the response and of the timestamp it
\* is called with: how it ends, what it prints, the timestamp it leaves
print_algolia_logs(response, timestamp) ==
    LET r == get_logs(response)
    IN  IF r.tag # "ok"
        THEN [tag |-> r.tag, printed |-> <<>>, timestamp |-> timestamp]
        ELSE [tag |-> "ok",
              printed |-> MessagesOf(Retained(r.val, timestamp)),
              timestamp |-> Advance(r.val, timestamp)]

\* tracked after get_logs has returned logs_ while last_log_timestamp is
\* timestamp: the first time the tracked entry is in the batch, whether it is
\* newer than the timestamp is recorded; afterwards tracked does not change
Observe(tracked_, logs_, timestamp) ==
    IF tracked_ = <<>>
    THEN tracked_
    ELSE IF tracked_[1].seen # "unseen"
    THEN tracked_
    ELSE IF \A i \in DOMAIN logs_ : logs_[i].message # tracked_[1].entry
    THEN tracked_
    ELSE << [entry |-> tracked_[1].entry,
             seen |-> IF is_newer(from_json(tracked_[1].entry), timestamp)
                      THEN "ontime"
                      ELSE "late"] >>

\* the value of rerun in the poll loop
NoRerun ==
    [step |-> "idle", response |-> [status |-> "err", kind |-> "none",
                                    val |-> <<>>],
     start |-> Sentinel, first |-> <<>>, middle |-> Sentinel,
     second |-> <<>>, timestamp |-> Sentinel]

\* the value of classify in the poll loop
NoClassify ==
    [step |-> "idle", batch |-> <<>>, timestamp |-> Sentinel,
     lines |-> <<>>]

\* main: the eprintln before the loop, written in change-triggered mode
Monitoring(all_logs, expected) ==
    IF all_logs
    THEN <<>>
    ELSE << [kind |-> "monitoring", delta |-> 0, value |-> expected] >>

\* print_logs_when_records_change: the eprintln inside the if
Difference(trig, delta, changed) ==
    IF trig
    THEN << [kind |-> "difference", delta |-> delta, value |-> changed] >>
    ELSE <<>>

\* an Err that is dropped: the cycle goes on to its sleep
Swallow == pc' = "sleep"

\* the ? operator on an Err: main returns the error
Propagate == pc' = "failed"

(***************************************************************************)
(* Initial state: the arguments are parsed, nothing has been requested.    *)
(***************************************************************************)
Init ==
    /\ args \in ArgsSet
    /\ pc = "start"
    /\ expected_records = 0
    /\ last_log_timestamp = Sentinel
    /\ total = 0
    /\ changed_records = 0
    /\ triggered = FALSE
    /\ logs = <<>>
    /\ printed = <<>>
    /\ count_kind = "none"
    /\ logs_kind = "none"
    /\ batch = <<>>
    /\ wm_start = Sentinel
    /\ emitted = {}
    /\ fetched = FALSE
    /\ failure = FALSE
    /\ startup_queries = <<>>
    /\ stderr = <<>>
    /\ cycle_wm = Sentinel
    /\ tracked = <<>>
    /\ rerun = NoRerun
    /\ classify = NoClassify

(***************************************************************************)
(* Actions.                                                                *)
(***************************************************************************)
\* main before the loop: the expected record count
Startup ==
    /\ pc = "start"
    /\ IF args.expected_records = 0
       THEN \E response \in CountResponses :
              LET r == total_records(response)
              IN  IF r.tag = "err"
                  THEN /\ Propagate
                       /\ failure' = TRUE
                       /\ startup_queries' = Append(startup_queries, r)
                       /\ UNCHANGED << expected_records, stderr >>
                  ELSE /\ pc' = "loop"
                       /\ expected_records' = r.val
                       /\ startup_queries' = Append(startup_queries, r)
                       /\ stderr' = Monitoring(args.all_logs, r.val)
                       /\ UNCHANGED failure
       ELSE /\ pc' = "loop"
            /\ expected_records' = args.expected_records
            /\ stderr' = Monitoring(args.all_logs, args.expected_records)
            /\ UNCHANGED << failure, startup_queries >>
    /\ UNCHANGED << args, last_log_timestamp, total, changed_records,
                    triggered, logs, printed, count_kind, logs_kind, batch,
                    wm_start, emitted, fetched, cycle_wm, tracked, rerun,
                    classify >>

\* one cycle in change-triggered mode, up to the call of print_algolia_logs
print_logs_when_records_change ==
    /\ pc = "loop"
    /\ ~ args.all_logs
    /\ \E response \in CountResponses :
         LET r == total_records(response)
         IN  /\ count_kind' = response.kind
             /\ IF r.tag = "err"
                THEN /\ Propagate
                     /\ failure' = TRUE
                     /\ UNCHANGED << total, changed_records, triggered,
                                     stderr >>
                ELSE \E outcome \in Subtract(r.val, expected_records) :
                       /\ total' = r.val
                       /\ UNCHANGED failure
                       /\ IF outcome.tag = "panic"
                          THEN /\ pc' = "panicked"
                               /\ UNCHANGED << changed_records, triggered,
                                               stderr >>
                          ELSE /\ changed_records' = outcome.val
                               /\ triggered' =
                                      Triggers(args.delta, outcome.val)
                               /\ stderr' =
                                      stderr \o Difference(triggered',
                                                 args.delta, outcome.val)
                               /\ pc' = AfterEvaluate(triggered')
    /\ UNCHANGED << args, expected_records, last_log_timestamp, logs,
                    printed, logs_kind, batch, wm_start, emitted, fetched,
                    startup_queries, cycle_wm, tracked, rerun, classify >>

\* one cycle in all-logs mode, up to the call of print_algolia_logs
print_all_logs ==
    /\ pc = "loop"
    /\ args.all_logs
    /\ pc' = "fetch"
    /\ UNCHANGED << args, expected_records, last_log_timestamp, total,
                    changed_records, triggered, logs, printed, count_kind,
                    logs_kind, batch, wm_start, emitted, fetched, failure,
                    startup_queries, stderr, cycle_wm, tracked, rerun,
                    classify >>

\* print_algolia_logs: client.get_logs().await?
FetchLogs ==
    /\ pc = "fetch"
    /\ \E response \in LogResponses :
         LET r == get_logs(response)
         IN  /\ fetched' = TRUE
             /\ logs_kind' = response.kind
             /\ IF r.tag = "err"
                THEN /\ Propagate
                     /\ failure' = TRUE
                     /\ UNCHANGED << logs, batch, wm_start, tracked >>
                ELSE /\ pc' = (IF r.tag = "panic" THEN "panicked" ELSE "print")
                     /\ logs' = r.val
                     /\ batch' = response.val
                     /\ wm_start' = last_log_timestamp
                     /\ tracked' = Observe(tracked, r.val, last_log_timestamp)
                     /\ UNCHANGED failure
    /\ UNCHANGED << args, expected_records, last_log_timestamp, total,
                    changed_records, triggered, printed, count_kind,
                    emitted, startup_queries, stderr, cycle_wm, rerun,
                    classify >>

\* a loop that prints and stops after the first line it has printed
PrintLogsBreak ==
    /\ pc = "print"
    /\ LET kept == Retained(logs, last_log_timestamp)
       IN  printed' = IF kept = <<>> THEN <<>> ELSE << kept[1].message >>
    /\ pc' = "advance"
    /\ UNCHANGED << args, expected_records, last_log_timestamp, total,
                    changed_records, triggered, logs, count_kind, logs_kind,
                    batch, wm_start, emitted, fetched, failure,
                    startup_queries, stderr, cycle_wm, tracked, rerun,
                    classify >>

\* print_algolia_logs: the loop that prints
PrintLogs ==
    /\ pc = "print"
    /\ LET kept == Retained(logs, last_log_timestamp)
       IN  printed' = [i \in DOMAIN kept |-> kept[i].message]
    /\ pc' = "advance"
    /\ UNCHANGED << args, expected_records, last_log_timestamp, total,
                    changed_records, triggered, logs, count_kind, logs_kind,
                    batch, wm_start, emitted, fetched, failure,
                    startup_queries, stderr, cycle_wm, tracked, rerun,
                    classify >>

\* print_algolia_logs: the loop that replaces last_log_timestamp
AdvanceWatermark ==
    /\ pc = "advance"
    /\ last_log_timestamp' = Advance(logs, last_log_timestamp)
    /\ pc' = "sleep"
    /\ UNCHANGED << args, expected_records, total, changed_records,
                    triggered, logs, printed, count_kind, logs_kind, batch,
                    wm_start, emitted, fetched, failure, startup_queries,
                    stderr, cycle_wm, tracked, rerun, classify >>

\* a sleep after which last_log_timestamp is initialized again
SleepResetsTimestamp ==
    /\ pc = "sleep"
    /\ pc' = "loop"
    /\ last_log_timestamp' = Sentinel
    /\ emitted' =
           emitted \cup { printed[i].timestamp.val : i \in DOMAIN printed }
    /\ total' = 0
    /\ changed_records' = 0
    /\ triggered' = FALSE
    /\ logs' = <<>>
    /\ printed' = <<>>
    /\ count_kind' = "none"
    /\ logs_kind' = "none"
    /\ batch' = <<>>
    /\ fetched' = FALSE
    /\ stderr' = <<>>
    /\ cycle_wm' = last_log_timestamp'
    /\ UNCHANGED << args, expected_records, wm_start, failure,
                    startup_queries, tracked, rerun, classify >>

\* a sleep after which the count of a cycle that triggered is the new
\* expected count
SleepRebaseline ==
    /\ pc = "sleep"
    /\ pc' = "loop"
    /\ expected_records' = (IF triggered THEN total ELSE expected_records)
    /\ emitted' =
           emitted \cup { printed[i].timestamp.val : i \in DOMAIN printed }
    /\ total' = 0
    /\ changed_records' = 0
    /\ triggered' = FALSE
    /\ logs' = <<>>
    /\ printed' = <<>>
    /\ count_kind' = "none"
    /\ logs_kind' = "none"
    /\ batch' = <<>>
    /\ fetched' = FALSE
    /\ stderr' = <<>>
    /\ cycle_wm' = last_log_timestamp
    /\ UNCHANGED << args, last_log_timestamp, wm_start, failure,
                    startup_queries, tracked, rerun, classify >>

\* main: sleep, then the next iteration of the loop; the locals of the
\* cycle that ended are gone
Sleep ==
    /\ pc = "sleep"
    /\ pc' = "loop"
    /\ emitted' =
           emitted \cup { printed[i].timestamp.val : i \in DOMAIN printed }
    /\ total' = 0
    /\ changed_records' = 0
    /\ triggered' = FALSE
    /\ logs' = <<>>
    /\ printed' = <<>>
    /\ count_kind' = "none"
    /\ logs_kind' = "none"
    /\ batch' = <<>>
    /\ fetched' = FALSE
    /\ stderr' = <<>>
    /\ cycle_wm' = last_log_timestamp
    /\ UNCHANGED << args, expected_records, last_log_timestamp, wm_start,
                    failure, startup_queries, tracked, rerun, classify >>

Next ==
    \/ Startup
    \/ print_logs_when_records_change
    \/ print_all_logs
    \/ FetchLogs
    \/ PrintLogs
    \/ AdvanceWatermark
    \/ Sleep

Spec == Init /\ [][Next]_vars

(***************************************************************************)
(* print_algolia_logs called twice with the same response: the first call  *)
(* with any timestamp, the second with the timestamp the first has left.   *)
(***************************************************************************)
RerunInit ==
    /\ args = [all_logs |-> TRUE, expected_records |-> 100, delta |-> -10]
    /\ pc = "start"
    /\ expected_records = 0
    /\ last_log_timestamp = Sentinel
    /\ total = 0
    /\ changed_records = 0
    /\ triggered = FALSE
    /\ logs = <<>>
    /\ printed = <<>>
    /\ count_kind = "none"
    /\ logs_kind = "none"
    /\ batch = <<>>
    /\ wm_start = Sentinel
    /\ emitted = {}
    /\ fetched = FALSE
    /\ failure = FALSE
    /\ startup_queries = <<>>
    /\ stderr = <<>>
    /\ cycle_wm = Sentinel
    /\ tracked = <<>>
    /\ classify = NoClassify
    /\ \E response \in LogResponses, timestamp \in Timestamps \cup {Sentinel} :
         rerun = [NoRerun EXCEPT !.step = "ready", !.response = response,
                                 !.start = timestamp, !.middle = timestamp,
                                 !.timestamp = timestamp]

FirstRun ==
    /\ rerun.step = "ready"
    /\ LET r == print_algolia_logs(rerun.response, rerun.start)
       IN  rerun' = [rerun EXCEPT
                       !.step = IF r.tag = "ok" THEN "once" ELSE r.tag,
                       !.first = r.printed,
                       !.middle = r.timestamp,
                       !.timestamp = r.timestamp]
    /\ UNCHANGED << loop_vars, classify >>

SecondRun ==
    /\ rerun.step = "once"
    /\ LET r == print_algolia_logs(rerun.response, rerun.middle)
       IN  rerun' = [rerun EXCEPT
                       !.step = IF r.tag = "ok" THEN "twice" ELSE r.tag,
                       !.second = r.printed,
                       !.timestamp = r.timestamp]
    /\ UNCHANGED << loop_vars, classify >>

RerunNext == FirstRun \/ SecondRun

RerunSpec == RerunInit /\ [][RerunNext]_vars


(***************************************************************************)
(* Properties.                                                             *)
(***************************************************************************)
\* the timestamps of the lines printed by the current run
PrintedTimestamps == { printed[i].timestamp.val : i \in DOMAIN printed }

\* C1: last_log_timestamp starts at the sentinel and no step of the program,
\* in either mode and whatever the service returns, makes it smaller (by
\* string ordering) than it was.
C1_WatermarkMonotonic ==
    /\ last_log_timestamp = Sentinel
    /\ [][StrGe(last_log_timestamp', last_log_timestamp)]_vars

\* a run that moved an already moved timestamp forward although its batch
\* held an entry older than the timestamp it started with
C1_Witness ==
    /\ pc = "sleep"
    /\ wm_start # Sentinel
    /\ StrGt(last_log_timestamp, wm_start)
    /\ \E i \in DOMAIN logs : StrLt(logs[i].timestamp, wm_start)

\* C2: no line printed by a run carries a timestamp that a line printed in
\* an earlier cycle carried, also when the entry is in the batch again.
C2_NoReprocessing == \A t \in PrintedTimestamps : t \notin emitted

\* a run that printed something from a batch that held an entry with a
\* timestamp printed in an earlier cycle
C2_Witness ==
    /\ pc = "advance"
    /\ printed # <<>>
    /\ \E i \in DOMAIN batch : batch[i].timestamp.val \in emitted

\* C3: once the first loop of a run is over, an entry of logs has been
\* printed if and only if its timestamp is greater than the timestamp the
\* run started with, and one line was printed per such entry.
C3_FilterRule ==
    pc \in {"advance", "sleep"} =>
        /\ \A i \in DOMAIN logs :
             (\E j \in DOMAIN printed : printed[j] = logs[i].message)
                 <=> StrGt(logs[i].timestamp, wm_start)
        /\ Len(printed) =
               Cardinality({ i \in DOMAIN logs :
                               StrGt(logs[i].timestamp, wm_start) })

\* a finished run whose batch held a newer entry before an older one, both
\* newer than the timestamp at the start, and that printed both
C3_Witness ==
    /\ pc = "sleep"
    /\ Len(logs) >= 2
    /\ StrGt(logs[1].timestamp, logs[2].timestamp)
    /\ StrGt(logs[2].timestamp, wm_start)
    /\ Len(printed) >= 2

\* C4: after a run, last_log_timestamp is the greatest timestamp among the
\* printed entries wherever it stood in the batch, and it is the timestamp
\* the run started with when nothing was printed.
C4_WatermarkAdvance ==
    (pc = "sleep" /\ fetched) =>
        IF PrintedTimestamps = {}
        THEN last_log_timestamp = wm_start
        ELSE /\ last_log_timestamp \in PrintedTimestamps
             /\ \A t \in PrintedTimestamps : StrGe(last_log_timestamp, t)

\* a finished run, not the first to print, whose first entry was the newest
\* and became the timestamp although an older retained entry followed it
C4_Witness ==
    /\ pc = "sleep"
    /\ fetched
    /\ emitted # {}
    /\ Len(logs) >= 2
    /\ StrGt(logs[1].timestamp, logs[2].timestamp)
    /\ StrGt(logs[2].timestamp, wm_start)
    /\ last_log_timestamp = logs[1].timestamp

\* C5: a second run of print_algolia_logs on the same response, called with
\* the timestamp the first run left, prints nothing and leaves the
\* timestamp as it is.
C5_Idempotent ==
    rerun.step = "twice" =>
        /\ rerun.second = <<>>
        /\ rerun.timestamp = rerun.middle

\* a second run after a first run that printed two lines and moved a
\* timestamp that was not the sentinel
C5_Witness ==
    /\ rerun.step = "twice"
    /\ Len(rerun.first) >= 2
    /\ rerun.start # Sentinel
    /\ rerun.middle # rerun.start

\* C6: for every count, expected count and threshold, with
\* delta = current - expected, the evaluation triggers exactly when
\* (threshold < 0 and delta < threshold) or (threshold > 0 and
\* delta > threshold).
C6_DeltaRule ==
    (~ args.all_logs /\ pc \in {"fetch", "print", "advance", "sleep"}) =>
        LET delta == total - expected_records
        IN  triggered <=>
                \/ (args.delta < 0 /\ delta < args.delta)
                \/ (args.delta > 0 /\ delta > args.delta)

\* C7: in change-triggered mode the logs are requested in a cycle if and
\* only if the evaluation of that cycle triggered; in all-logs mode they are
\* requested in every cycle.
C7_ModeGating ==
    /\ (pc = "fetch" \/ fetched) => (args.all_logs \/ triggered)
    /\ (~ args.all_logs /\ triggered /\ ~ fetched) => pc = "fetch"
    /\ pc = "sleep" => (fetched <=> (args.all_logs \/ triggered))

\* a change-triggered cycle that triggered and whose run printed a line
C7_Witness ==
    /\ ~ args.all_logs
    /\ triggered
    /\ fetched
    /\ pc = "advance"
    /\ printed # <<>>

\* C8: when the array of a response holds an entry without a timestamp the
\* process does not crash, and the run prints the other entries of the
\* array that are newer than the timestamp it started with.
C8_MalformedEntrySkipped ==
    (fetched /\ logs_kind = "array"
        /\ \E i \in DOMAIN batch : ~ HasTimestamp(batch[i])) =>
        /\ pc \in {"print", "advance", "sleep"}
        /\ pc \in {"advance", "sleep"} =>
             printed = SelectSeq(batch, LAMBDA json :
                           /\ HasTimestamp(json)
                           /\ StrGt(json.timestamp.val, wm_start))

\* C9: when a request has returned an error the process has terminated:
\* nothing changes afterwards, and the step in which the error arrived
\* printed nothing and left last_log_timestamp alone.
C9_TransportFatal ==
    /\ [](failure => pc = "failed")
    /\ [][failure => UNCHANGED vars]_vars
    /\ [][(~ failure /\ failure') =>
            UNCHANGED << printed, emitted, last_log_timestamp >>]_vars

\* the request for the logs failed in a process that had printed before
C9_Witness ==
    /\ failure
    /\ fetched
    /\ emitted # {}

\* C10: a logs response without an array "logs" is a run that prints nothing
\* and leaves the timestamp; a count response without an unsigned "nbHits"
\* is a count of 0, for which delta = -expected is evaluated; neither ends
\* the process.
C10_MalformedResponseFallback ==
    /\ (fetched /\ logs_kind \in {"absent", "other"}) =>
          /\ pc \in {"print", "advance", "sleep"}
          /\ logs = <<>>
          /\ printed = <<>>
          /\ last_log_timestamp = wm_start
    /\ (count_kind \in {"absent", "other"} /\ ~ fetched) =>
          /\ pc \in {"fetch", "sleep"}
          /\ total = 0
          /\ changed_records = 0 - expected_records
          /\ triggered = Triggers(args.delta, 0 - expected_records)

(***************************************************************************)
(* The pipeline of the mode that tracks the HTTP method (section 4.2,      *)
(* step 3): a log record carries the method of the logged operation, read  *)
(* records are dropped, the others are printed with a prefix.              *)
(***************************************************************************)
\* methods of logged operations; GET is the read method
Methods == { "GET", "POST", "PUT" }

ReadMethods == { "GET" }

\* serialized payloads, as sequences of words
Payloads == { <<>>, <<"x">>, <<"delete">>, <<"x", "delete">> }

\* the log records of this mode
MethodRecords ==
    [timestamp : { <<49>>, <<57>> }, method : Methods, payload : Payloads]

MethodBatches == UNION { [1 .. n -> MethodRecords] : n \in 0 .. MaxBatch }

\* the payload contains the delete marker
HasDeleteMarker(payload) == \E i \in DOMAIN payload : payload[i] = "delete"

\* every mutating record is an update
ClassifyAllUpdates(record) ==
    IF record.method \in ReadMethods THEN "read" ELSE "UPDATE:"

\* step 3: the class of a retained record
Classify(record) ==
    IF record.method \in ReadMethods
    THEN "read"
    ELSE IF HasDeleteMarker(record.payload)
    THEN "DELETE:"
    ELSE "UPDATE:"

\* steps 2 to 4: the lines printed for a batch
ClassifiedLines(records, timestamp) ==
    LET kept == SelectSeq(Retained(records, timestamp),
                          LAMBDA record : Classify(record) # "read")
    IN  [i \in DOMAIN kept |->
           [prefix |-> Classify(kept[i]), payload |-> kept[i].payload,
            record |-> kept[i]]]

ClassifyInit ==
    /\ args = [all_logs |-> FALSE, expected_records |-> 100, delta |-> -10]
    /\ pc = "start"
    /\ expected_records = 0
    /\ last_log_timestamp = Sentinel
    /\ total = 0
    /\ changed_records = 0
    /\ triggered = FALSE
    /\ logs = <<>>
    /\ printed = <<>>
    /\ count_kind = "none"
    /\ logs_kind = "none"
    /\ batch = <<>>
    /\ wm_start = Sentinel
    /\ emitted = {}
    /\ fetched = FALSE
    /\ failure = FALSE
    /\ startup_queries = <<>>
    /\ stderr = <<>>
    /\ cycle_wm = Sentinel
    /\ tracked = <<>>
    /\ rerun = NoRerun
    /\ \E records \in MethodBatches, timestamp \in { Sentinel, <<49>> } :
         classify = [NoClassify EXCEPT !.step = "ready", !.batch = records,
                                       !.timestamp = timestamp]

ClassifyRun ==
    /\ classify.step = "ready"
    /\ classify' =
           [classify EXCEPT
              !.step = "done",
              !.lines = ClassifiedLines(classify.batch, classify.timestamp)]
    /\ UNCHANGED << loop_vars, rerun >>

ClassifyNext == ClassifyRun

ClassifySpec == ClassifyInit /\ [][ClassifyNext]_vars

\* the records of the classified batch that are retained and of a class
ClassifiedAs(class) ==
    SelectSeq(classify.batch, LAMBDA record :
        /\ StrGt(record.timestamp, classify.timestamp)
        /\ (class = "read") = (record.method = "GET")
        /\ (class = "DELETE:") =>
               (\E i \in DOMAIN record.payload : record.payload[i] = "delete")
        /\ (class = "UPDATE:") =>
               (\A i \in DOMAIN record.payload : record.payload[i] # "delete"))

\* C11: in the mode that tracks the method, a retained record whose payload
\* contains the delete marker is printed with the prefix DELETE:, every other
\* retained mutating record with the prefix UPDATE:, and a retained record
\* with a read method is not printed.
C11_Classification ==
    classify.step = "done" =>
        LET lines == classify.lines
            WithPrefix(prefix) ==
                SelectSeq(lines, LAMBDA line : line.prefix = prefix)
        IN  /\ \A i \in DOMAIN lines :
                 /\ lines[i].prefix \in { "DELETE:", "UPDATE:" }
                 /\ lines[i].record.method # "GET"
            /\ [i \in DOMAIN WithPrefix("DELETE:") |->
                   WithPrefix("DELETE:")[i].record] = ClassifiedAs("DELETE:")
            /\ [i \in DOMAIN WithPrefix("UPDATE:") |->
                   WithPrefix("UPDATE:")[i].record] = ClassifiedAs("UPDATE:")

\* a batch with a retained read record and a retained record with the
\* marker, of which only the second was printed, as a delete
C11_Witness ==
    /\ classify.step = "done"
    /\ Len(classify.batch) >= 2
    /\ ClassifiedAs("read") # <<>>
    /\ ClassifiedAs("DELETE:") # <<>>
    /\ Len(classify.lines) = 1
    /\ classify.lines[1].prefix = "DELETE:"

\* the expected count that main fixes before the loop
Baseline ==
    IF args.expected_records # 0
    THEN args.expected_records
    ELSE startup_queries[1].val

\* main has entered the loop
Started ==
    /\ pc # "start"
    /\ \A i \in DOMAIN startup_queries : startup_queries[i].tag = "ok"

\* C12: expected_records is the configured value when that is not 0 and
\* otherwise the count returned by the one query made before the loop; it
\* never changes afterwards, and every cycle computes its delta against it.
C12_BaselineFixed ==
    /\ [](Started =>
            /\ Len(startup_queries) =
                   (IF args.expected_records = 0 THEN 1 ELSE 0)
            /\ expected_records = Baseline)
    /\ [][pc # "start" =>
            UNCHANGED << expected_records, startup_queries >>]_vars
    /\ []((~ args.all_logs /\ pc \in {"fetch", "print", "advance", "sleep"})
            => \E outcome \in Subtract(total, Baseline) :
                 outcome.tag = "ok" /\ changed_records = outcome.val)

\* a cycle that triggered, after an earlier cycle had printed, in a process
\* that took its expected count from the service
C12_Witness ==
    /\ ~ args.all_logs
    /\ args.expected_records = 0
    /\ expected_records # 0
    /\ emitted # {}
    /\ pc = "sleep"
    /\ triggered
    /\ total # expected_records

\* C13: the lines of a run are the messages of the entries of logs that are
\* newer than the timestamp the run started with, one line per entry, as
\* they are and in the order of the batch, and they are all printed before
\* last_log_timestamp is replaced.
C13_EmissionOrder ==
    /\ [](pc \in {"advance", "sleep"} =>
            LET kept == SelectSeq(logs, LAMBDA log :
                            StrGt(log.timestamp, wm_start))
            IN  /\ Len(printed) = Len(kept)
                /\ \A i \in DOMAIN kept : printed[i] = kept[i].message)
    /\ [](pc = "advance" => last_log_timestamp = wm_start)
    /\ [][last_log_timestamp' # last_log_timestamp =>
            (pc = "advance" /\ printed' = printed)]_vars

\* a run that printed two lines in the order of the batch, the newer entry
\* first, and has not yet replaced the timestamp
C13_Witness ==
    /\ pc = "advance"
    /\ Len(logs) >= 2
    /\ Len(printed) >= 2
    /\ printed[1] = logs[1].message
    /\ printed[2] = logs[2].message
    /\ StrGt(logs[1].timestamp, logs[2].timestamp)
    /\ last_log_timestamp = wm_start

\* the count has been queried in the current cycle
CountQueried == count_kind \in {"u64", "absent", "other"}

\* C14 as stated: in both modes a cycle queries the record count before it
\* requests the logs.
C14_CountBeforeFetch == (pc = "fetch" \/ fetched) => CountQueried

\* C14 as amended: in change-triggered mode a cycle queries the record count
\* before it requests the logs; in all-logs mode a cycle makes no count
\* query and always requests the logs; in both modes the next cycle begins
\* only after the sleep that ends the cycle.
C14_CycleOrder ==
    /\ (~ args.all_logs /\ (pc = "fetch" \/ fetched)) => CountQueried
    /\ args.all_logs => count_kind = "none"
    /\ (args.all_logs /\ pc = "sleep") => fetched
    /\ pc = "loop" =>
          (count_kind = "none" /\ ~ fetched /\ printed = <<>>)

\* a change-triggered cycle, not the first to print, that queried the count,
\* requested the logs and reached its sleep
C14_Witness ==
    /\ ~ args.all_logs
    /\ count_kind = "u64"
    /\ fetched
    /\ emitted # {}
    /\ pc = "sleep"

\* C15: unless a request fails, the loop has no terminal state: whatever the
\* service returns, the program can take a further step.
C15_NoTerminalState == ~ failure => ENABLED Next

\* C16: last_log_timestamp is written only by the second loop of
\* print_algolia_logs; the count query, the evaluation, the messages on
\* stderr and the sleep leave it alone, so a change-triggered cycle that
\* does not trigger prints no line and ends with the timestamp it began
\* with.
C16_WatermarkFrame ==
    /\ [][last_log_timestamp' # last_log_timestamp =>
            (pc = "advance" /\ pc' = "sleep")]_vars
    /\ [][(stderr' # stderr \/ count_kind' # count_kind \/ pc = "sleep")
            => last_log_timestamp' = last_log_timestamp]_vars
    /\ [](pc # "advance" /\ ~ fetched => last_log_timestamp = cycle_wm)
    /\ []((~ args.all_logs /\ CountQueried /\ ~ triggered
             /\ pc \in {"sleep", "loop"}) =>
            /\ ~ fetched
            /\ printed = <<>>
            /\ last_log_timestamp = cycle_wm)

\* a change-triggered cycle that did not trigger, at its sleep, in a process
\* whose timestamp an earlier cycle had moved
C16_Witness ==
    /\ ~ args.all_logs
    /\ CountQueried
    /\ ~ triggered
    /\ pc = "sleep"
    /\ emitted # {}
    /\ last_log_timestamp # Sentinel
    /\ last_log_timestamp = cycle_wm

\* C17: for every count and expected count of the unsigned range, the
\* evaluation ends with changed_records equal to the mathematical difference
\* of the count and the expected count.
C17_DeltaArithmetic ==
    (~ args.all_logs /\ CountQueried /\ ~ fetched) =>
        /\ pc \in {"fetch", "sleep"}
        /\ changed_records = total - expected_records

\* C18: in change-triggered mode with a negative threshold and an expected
\* count not above the magnitude of the threshold, no cycle triggers,
\* requests the logs or prints a line, whatever count is returned.
C18_NeverTriggers ==
    (~ args.all_logs /\ Started /\ args.delta < 0
        /\ expected_records <= 0 - args.delta) =>
        /\ ~ triggered
        /\ pc # "fetch"
        /\ ~ fetched
        /\ printed = <<>>

\* the timestamps of all the entries printed so far in the process
EmittedSoFar == emitted \cup PrintedTimestamps

\* C19: whenever print_algolia_logs is not in the middle of a run,
\* last_log_timestamp is the sentinel if no entry has been printed so far,
\* and otherwise it is the timestamp of a printed entry and no printed entry
\* has a timestamp that is greater by string ordering.
C19_WatermarkIsMaxEmitted ==
    pc # "advance" =>
        IF EmittedSoFar = {}
        THEN last_log_timestamp = Sentinel
        ELSE /\ last_log_timestamp \in EmittedSoFar
             /\ \A t \in EmittedSoFar : StrGe(last_log_timestamp, t)

\* two cycles have printed, the second one two entries out of timestamp
\* order, and last_log_timestamp is the greatest of the three timestamps
C19_Witness ==
    /\ pc = "sleep"
    /\ emitted # {}
    /\ Len(printed) = 2
    /\ StrGt(printed[1].timestamp.val, printed[2].timestamp.val)
    /\ last_log_timestamp = printed[1].timestamp.val
    /\ last_log_timestamp \notin emitted

(***************************************************************************)
(* The poll loop with one entry followed through the batches: when it is  *)
(* first returned by get_logs, and whether it is printed.                  *)
(***************************************************************************)
\* the entries that are followed: one per timestamp
TrackedEntries ==
    { [timestamp |-> [kind |-> "str", val |-> t], body |-> "b"] :
        t \in Timestamps }

LateInit ==
    /\ args \in { a \in ArgsSet : a.expected_records = 100 /\ a.delta = -10 }
    /\ pc = "start"
    /\ expected_records = 0
    /\ last_log_timestamp = Sentinel
    /\ total = 0
    /\ changed_records = 0
    /\ triggered = FALSE
    /\ logs = <<>>
    /\ printed = <<>>
    /\ count_kind = "none"
    /\ logs_kind = "none"
    /\ batch = <<>>
    /\ wm_start = Sentinel
    /\ emitted = {}
    /\ fetched = FALSE
    /\ failure = FALSE
    /\ startup_queries = <<>>
    /\ stderr = <<>>
    /\ cycle_wm = Sentinel
    /\ tracked \in { << [entry |-> e, seen |-> "unseen"] >> :
                       e \in TrackedEntries }
    /\ rerun = NoRerun
    /\ classify = NoClassify

LateSpec == LateInit /\ [][Next]_vars

\* the tracked entry was not newer than last_log_timestamp the first time
\* get_logs returned it
Late == tracked # <<>> /\ tracked[1].seen = "late"

\* C20: an entry whose timestamp is not greater than last_log_timestamp in
\* the first batch that contains it is not printed, in that cycle or in any
\* cycle after it.
C20_LateNeverEmitted ==
    /\ [](Late => \A i \in DOMAIN printed : printed[i] # tracked[1].entry)
    /\ [][Late => Late']_vars

\* an entry with the timestamp of an entry printed by an earlier cycle is
\* returned again in a later batch, next to a newer entry that is printed
C20_Witness ==
    /\ Late
    /\ pc = "sleep"
    /\ tracked[1].entry.timestamp.val \in emitted
    /\ \E i \in DOMAIN batch : batch[i] = tracked[1].entry
    /\ printed # <<>>
    /\ wm_start # Sentinel

====
